---- MODULE Spec2Model ----
(***************************************************************************)
(* QAOA tree tensor network (qaoa_tn.py): the prefix tree, the resolution  *)
(* of an edge-choice path, the per-layer tensors, the per-node tensor      *)
(* lists and the leg wiring made by the recursive contraction.             *)
(*                                                                         *)
(* A tensor is modelled by what the wiring depends on: its base node, its  *)
(* qubits, the factors its matrix is the product of, and its rank (the     *)
(* number of legs).  A leg is (tensor identity, index); `^` binds two legs.*)
(***************************************************************************)
EXTENDS Integers, Sequences, FiniteSets, TLC

VARIABLES tree, betas, gammas, extra_operators, tensors_by_root,
          stored_edges, result, network

vars == <<tree, betas, gammas, extra_operators, tensors_by_root,
          stored_edges, result, network>>

\* ------------------------------------------------------------- bounds
MaxDepth == 3
MaxLayers == 2
\* the degrees of the trees explored; contract_children fixes 3 at the root
Degrees == {2, 3}

\* ------------------------------------------------------- the prefix tree
\* the 'source' attribute of the root (Python's None)
NoneSource == -1

RECURSIVE Pow(_, _)
Pow(b, e) == IF e = 0 THEN 1 ELSE b * Pow(b, e - 1)

\* number of strings of length l in range(degree) x range(degree - 1)^(l - 1)
LevelSize(degree, l) == IF l = 0 THEN 1 ELSE degree * Pow(degree - 1, l - 1)

RECURSIVE LevelStart(_, _)
LevelStart(degree, l) ==
    IF l = 0 THEN 0 ELSE LevelStart(degree, l - 1) + LevelSize(degree, l - 1)

\* number of children of a node at level l < depth
Branching(degree, l) == IF l = 0 THEN degree ELSE degree - 1

\* The prefix tree of itertools.product(range(degree), range(degree - 1), ...),
\* NIL nodes removed.  Nodes are integers, numbered level by level; the node of
\* string x_1 ... x_l has source x_l and its children follow in label order.
regular_prefix_tree(degree, depth) ==
    LET n == LevelStart(degree, depth + 1)
        level(x) == CHOOSE l \in 0..depth :
                       LevelStart(degree, l) <= x /\ x < LevelStart(degree, l + 1)
        index(x) == x - LevelStart(degree, level(x))
    IN [ root |-> 0,
         nodes |-> 0..(n - 1),
         source |-> [x \in 0..(n - 1) |->
                       IF x = 0 THEN NoneSource
                       ELSE index(x) % Branching(degree, level(x) - 1)],
         successors |-> [x \in 0..(n - 1) |->
                       IF level(x) = depth THEN <<>>
                       ELSE [c \in 1..Branching(degree, level(x)) |->
                               LevelStart(degree, level(x) + 1)
                                 + index(x) * Branching(degree, level(x)) + (c - 1)]] ]

\* tree_tools.tree_depth: the longest path from node to a leaf below it
RECURSIVE tree_depth(_, _)
tree_depth(t, node) ==
    IF t.successors[node] = <<>> THEN 0
    ELSE LET ds == {tree_depth(t, t.successors[node][c]) :
                       c \in 1..Len(t.successors[node])}
         IN 1 + (CHOOSE d \in ds : \A e \in ds : e <= d)

\* nx.descendants_at_distance
RECURSIVE descendants_at_distance(_, _, _)
descendants_at_distance(t, node, distance) ==
    IF distance = 0 THEN {node}
    ELSE UNION {descendants_at_distance(t, t.successors[node][c], distance - 1) :
                   c \in 1..Len(t.successors[node])}

\* a set of integers as the ascending sequence of its elements
SortedSeq(S) ==
    [j \in 1..Cardinality(S) |->
        CHOOSE x \in S : Cardinality({y \in S : y < x}) = j - 1]

\* ------------------------------------------------- edge_choices_to_node
\* What a call returns or raises: exc = "" for a normal return.
Returned(node) == [exc |-> "", arg |-> -1, node |-> node]
Raised(exc, arg) == [exc |-> exc, arg |-> arg, node |-> -1]

InvalidEdgeChoice == "ValueError: invalid edge choice"
TooHighDepth == "ValueError: too high internal node depth"

\* the inner loop: the first successor whose source is edge_choice
SuccessorFound(t, current_node, edge_choice) ==
    \E c \in 1..Len(t.successors[current_node]) :
        t.source[t.successors[current_node][c]] = edge_choice

\* FirstSuccessor with the successors matched from the wrong end
FirstSuccessorReversed(t, current_node, edge_choice) ==
    LET succ == t.successors[current_node]
        c == CHOOSE c \in 1..Len(succ) :
                t.source[succ[Len(succ) + 1 - c]] = edge_choice
    IN succ[c]

FirstSuccessor(t, current_node, edge_choice) ==
    LET succ == t.successors[current_node]
        c == CHOOSE c \in 1..Len(succ) :
                /\ t.source[succ[c]] = edge_choice
                /\ \A b \in 1..(c - 1) : t.source[succ[b]] # edge_choice
    IN succ[c]

\* WalkEdgeChoices without the raise: a label with no successor is skipped
RECURSIVE WalkEdgeChoicesSkipping(_, _, _, _)
WalkEdgeChoicesSkipping(t, current_node, edge_choices, i) ==
    IF i > Len(edge_choices) THEN Returned(current_node)
    ELSE IF SuccessorFound(t, current_node, edge_choices[i])
         THEN WalkEdgeChoicesSkipping(t,
                  FirstSuccessor(t, current_node, edge_choices[i]),
                  edge_choices, i + 1)
         ELSE WalkEdgeChoicesSkipping(t, current_node, edge_choices, i + 1)

RECURSIVE WalkEdgeChoices(_, _, _, _)
WalkEdgeChoices(t, current_node, edge_choices, i) ==
    IF i > Len(edge_choices) THEN Returned(current_node)
    ELSE IF SuccessorFound(t, current_node, edge_choices[i])
         THEN WalkEdgeChoices(t, FirstSuccessor(t, current_node, edge_choices[i]),
                              edge_choices, i + 1)
         ELSE Raised(InvalidEdgeChoice, edge_choices[i])

edge_choices_to_node(t, root, edge_choices) ==
    WalkEdgeChoices(t, root, edge_choices, 1)

\* ------------------------------------------- tree_tensor_network_layer
Identity == "I"

\* extra_operators.get(node, np.eye(2))
ExtraGet(extra, node) == IF node \in DOMAIN extra THEN extra[node] ELSE Identity

BoolInt(b) == IF b THEN 1 ELSE 0

\* The tensor built for one base node.  mixer[q] says whether the q-th Kronecker
\* factor of mixer_matrix is the rotation cos(beta/2) I - i sin(beta/2) X (TRUE)
\* or np.eye(2) (FALSE); extra[q] is the q-th factor of extra_operators_matrix.
\* The matrix is extra . mixer . ising (dag: ising . mixer . extra), multiplied
\* by the uniform vector when initial_final; rank is the reshaped tensor's.
LayerTensor(beta, gamma, t, tree_root, root, odd, initial_final, dag, extra) ==
    LET successors == t.successors[root]
        qubits == <<root>> \o successors
        k == Len(qubits)
    IN [ root |-> root,
         qubits |-> qubits,
         beta |-> beta,
         gamma |-> gamma,
         odd |-> odd,
         dag |-> dag,
         initial_final |-> initial_final,
         mixer |-> IF odd THEN [q \in 1..k |-> TRUE]
                   ELSE IF root = tree_root THEN [q \in 1..k |-> q = 1]
                   ELSE [q \in 1..k |-> FALSE],
         extra |-> IF odd THEN [q \in 1..k |-> ExtraGet(extra, qubits[q])]
                   ELSE IF root = tree_root
                        THEN [q \in 1..k |-> IF q = 1 THEN ExtraGet(extra, root)
                                             ELSE Identity]
                   ELSE [q \in 1..k |-> Identity],
         rank |-> IF initial_final THEN k ELSE 2 * k ]

\* the tensors of the nodes at one depth, in node order
DepthTensors(beta, gamma, t, tree_root, depth, odd, initial_final, dag, extra) ==
    LET roots == SortedSeq(descendants_at_distance(t, tree_root, depth))
    IN [j \in 1..Len(roots) |->
          [ tensor |-> LayerTensor(beta, gamma, t, tree_root, roots[j], odd,
                                   initial_final, dag, extra),
            root |-> roots[j],
            successors |-> t.successors[roots[j]] ]]

\* for depth in range(int(odd), tree_depth, 2)
RECURSIVE LayerFrom(_, _, _, _, _, _, _, _, _)
LayerFrom(beta, gamma, t, tree_root, depth, odd, initial_final, dag, extra) ==
    IF depth >= tree_depth(t, tree_root) THEN <<>>
    ELSE DepthTensors(beta, gamma, t, tree_root, depth, odd, initial_final, dag, extra)
         \o LayerFrom(beta, gamma, t, tree_root, depth + 2, odd, initial_final,
                      dag, extra)

tree_tensor_network_layer(beta, gamma, t, tree_root, odd, initial_final, dag, extra) ==
    LayerFrom(IF dag THEN -beta ELSE beta, IF dag THEN -gamma ELSE gamma,
              t, tree_root, BoolInt(odd), odd, initial_final, dag, extra)

\* ------------------------------------------------- qaoa_tensor_network
EmptyDict == <<>>

\* every new tensor is appended to the list of its root, in the order given
update_tensors_by_root(tbr, new_tensors_info) ==
    [root \in (DOMAIN tbr) \cup {new_tensors_info[j].root :
                                    j \in 1..Len(new_tensors_info)} |->
        LET OfRoot(info) == info.root = root
            new == SelectSeq(new_tensors_info, OfRoot)
        IN (IF root \in DOMAIN tbr THEN tbr[root] ELSE <<>>)
           \o [j \in 1..Len(new) |-> new[j].tensor]]

\* one iteration of the forward loop: even pass then odd pass, both appended
ForwardLayer(tbr, bs, gs, t, tree_root, extra, layer) ==
    LET ex == IF layer = Len(bs) - 1 THEN extra ELSE EmptyDict
        tensors_even == tree_tensor_network_layer(bs[layer + 1], gs[layer + 1], t,
                            tree_root, FALSE, layer = 0, FALSE, ex)
        tensors_odd == tree_tensor_network_layer(bs[layer + 1], gs[layer + 1], t,
                            tree_root, TRUE, FALSE, FALSE, ex)
    IN update_tensors_by_root(update_tensors_by_root(tbr, tensors_even),
                              tensors_odd)

\* one iteration of the dagger loop
DaggerLayer(tbr, bs, gs, t, tree_root, layer) ==
    LET tensors_odd == tree_tensor_network_layer(bs[layer + 1], gs[layer + 1], t,
                            tree_root, TRUE, FALSE, TRUE, EmptyDict)
        tensors_even == tree_tensor_network_layer(bs[layer + 1], gs[layer + 1], t,
                            tree_root, FALSE, layer = 0, TRUE, EmptyDict)
    IN update_tensors_by_root(update_tensors_by_root(tbr, tensors_even),
                              tensors_odd)

RECURSIVE ForwardSweep(_, _, _, _, _, _, _)
ForwardSweep(tbr, bs, gs, t, tree_root, extra, layer) ==
    IF layer >= Len(bs) THEN tbr
    ELSE ForwardSweep(ForwardLayer(tbr, bs, gs, t, tree_root, extra, layer),
                      bs, gs, t, tree_root, extra, layer + 1)

\* DaggerSweep with the layers taken in ascending order
RECURSIVE DaggerAscending(_, _, _, _, _, _)
DaggerAscending(tbr, bs, gs, t, tree_root, layer) ==
    IF layer >= Len(bs) THEN tbr
    ELSE DaggerAscending(DaggerLayer(tbr, bs, gs, t, tree_root, layer),
                         bs, gs, t, tree_root, layer + 1)
DaggerSweepAscending(tbr, bs, gs, t, tree_root, layer) ==
    DaggerAscending(tbr, bs, gs, t, tree_root, 0)

RECURSIVE DaggerSweep(_, _, _, _, _, _)
DaggerSweep(tbr, bs, gs, t, tree_root, layer) ==
    IF layer < 0 THEN tbr
    ELSE DaggerSweep(DaggerLayer(tbr, bs, gs, t, tree_root, layer),
                     bs, gs, t, tree_root, layer - 1)

qaoa_tensor_network(bs, gs, t, tree_root, extra) ==
    DaggerSweep(ForwardSweep(EmptyDict, bs, gs, t, tree_root, extra, 0),
                bs, gs, t, tree_root, Len(bs) - 1)


\* ------------------------------------------------------- tensors and legs
\* A tensor object: in tensors_by_root ("stored"), made by tn.copy ("copy"),
\* or the identity made for a network leaf ("eye").
TensorId(kind, node, k) == [kind |-> kind, node |-> node, k |-> k]
Leg(id, i) == [t |-> id, i |-> i]
BadLeg == Leg(TensorId("none", -1, -1), -1)

IndexError == "IndexError"
KeyError == "KeyError"
NotDangling == "ValueError: edge is not dangling"
OutputEdges == "ValueError: output edges are not the remaining edges"

\* Python's index into a sequence of length n; -1 when out of range
PyIndex(n, x) ==
    IF 0 <= x /\ x < n THEN x
    ELSE IF x < 0 /\ -n <= x THEN x + n
    ELSE -1

\* tensors_copy[x][l]
ListLeg(T, x, l) ==
    LET a == PyIndex(Len(T), x)
    IN IF a = -1 THEN BadLeg
       ELSE LET b == PyIndex(T[a + 1].rank, l)
            IN IF b = -1 THEN BadLeg ELSE Leg(T[a + 1].id, b)

\* partial_contraction[x]: the x-th remaining edge of a contracted tensor
PcLeg(pc, x) ==
    LET a == PyIndex(Len(pc.legs), x)
    IN IF a = -1 THEN BadLeg ELSE pc.legs[a + 1]

LegsOf(tensor) == {Leg(tensor.id, b) : b \in 0..(tensor.rank - 1)}
AllLegs(tensors) == UNION {LegsOf(x) : x \in tensors}
Range(seq) == {seq[j] : j \in 1..Len(seq)}

\* TensorsCopy without the copy: the tensors of tensors_by_root themselves
TensorsAliased(tbr, node) ==
    [k \in 1..Len(tbr[node]) |->
        [id |-> TensorId("stored", node, k - 1), rank |-> tbr[node][k].rank]]

\* list(tn.copy(tensors_by_root[node])[0].values()): fresh tensors, same order
TensorsCopy(tbr, node) ==
    [k \in 1..Len(tbr[node]) |->
        [id |-> TensorId("copy", node, k - 1), rank |-> tbr[node][k].rank]]

\* a ^ b as the j-th binding of ops raises: a leg that does not exist
\* (IndexError), or one that is no longer dangling (bound before the call, or
\* by an earlier binding of ops)
NoSuchLeg(ops, j) == ops[j][1] = BadLeg \/ ops[j][2] = BadLeg

Bound(pre, ops, j) ==
    \/ ops[j][1] = ops[j][2]
    \/ ops[j][1] \in pre
    \/ ops[j][2] \in pre
    \/ \E k \in 1..(j - 1) :
          {ops[j][1], ops[j][2]} \cap {ops[k][1], ops[k][2]} # {}

\* the bindings of ops, made in order up to the first that raises
ConnectAll(pre, ops) ==
    LET raising == {j \in 1..Len(ops) : NoSuchLeg(ops, j) \/ Bound(pre, ops, j)}
        first == IF raising = {} THEN Len(ops) + 1
                 ELSE CHOOSE j \in raising : \A k \in raising : j <= k
    IN [ exc |-> IF raising = {} THEN ""
                 ELSE IF NoSuchLeg(ops, first) THEN IndexError ELSE NotDangling,
         edges |-> {{ops[j][1], ops[j][2]} : j \in 1..(first - 1)},
         bound |-> pre \cup UNION {{ops[j][1], ops[j][2]} : j \in 1..(first - 1)} ]

\* tn.contractors.greedy(nodes, output_edge_order): the legs of the result,
\* nodes_legs being the legs of the nodes passed.  given = FALSE is the call
\* without output_edge_order, which allows one remaining edge at most.
Greedy(st, nodes_legs, given, order) ==
    LET dangling == nodes_legs \ st.bound
    IN IF st.exc # "" THEN [exc |-> st.exc, legs |-> <<>>]
       ELSE IF BadLeg \in Range(order) THEN [exc |-> IndexError, legs |-> <<>>]
       ELSE IF given
            THEN IF Range(order) = dangling /\ Len(order) = Cardinality(dangling)
                 THEN [exc |-> "", legs |-> order]
                 ELSE [exc |-> OutputEdges, legs |-> <<>>]
       ELSE IF Cardinality(dangling) > 1 THEN [exc |-> OutputEdges, legs |-> <<>>]
       ELSE [exc |-> "",
             legs |-> IF dangling = {} THEN <<>>
                      ELSE <<CHOOSE l \in dangling : TRUE>>]

\* ---------------------------------------------------- contract_children
\* What contract_children returns or raises, with the tensors it made and the
\* bindings it made (kept when it raises: a binding made is made).
Contraction(exc, arg, legs, tensors, edges) ==
    [exc |-> exc, arg |-> arg, legs |-> legs, tensors |-> tensors, edges |-> edges]

\* RootOps with the front tensor taken at int(i / 2), as the odd case does
RootOpsShifted(T, pcs) ==
    [j \in 1..(6 * (Len(T) - 1)) |->
        LET i == (j - 1) \div 6
            c == ((j - 1) % 6) \div 2
        IN IF (j - 1) % 2 = 0
           THEN <<ListLeg(T, i \div 2, (IF i % 2 = 1 THEN 5 ELSE 1) + c),
                  PcLeg(pcs[c + 1], i)>>
           ELSE <<ListLeg(T, -1 - ((i + 1) \div 2),
                          (IF i % 2 = 1 \/ i = 0 THEN 1 ELSE 5) + c),
                  PcLeg(pcs[c + 1], -1 - i)>>]

\* root case, first loop: child c (0, 1, 2) of the root, front then back
RootOps(T, pcs) ==
    [j \in 1..(6 * (Len(T) - 1)) |->
        LET i == (j - 1) \div 6
            c == ((j - 1) % 6) \div 2
        IN IF (j - 1) % 2 = 0
           THEN <<ListLeg(T, (i + 1) \div 2, (IF i % 2 = 1 THEN 5 ELSE 1) + c),
                  PcLeg(pcs[c + 1], i)>>
           ELSE <<ListLeg(T, -1 - ((i + 1) \div 2),
                          (IF i % 2 = 1 \/ i = 0 THEN 1 ELSE 5) + c),
                  PcLeg(pcs[c + 1], -1 - i)>>]

\* root case, second loop: the root qubit's own line
RootSelfOps(T) ==
    [j \in 1..(Len(T) - 1) |->
        LET i == j - 1
        IN <<ListLeg(T, i, 0),
             ListLeg(T, i + 1, IF i < Len(T) - 2 THEN 4 ELSE 0)>>]

\* interior case, odd len(edge_choices): the loop, then the three middle bindings
OddOps(T, pcs) ==
    [j \in 1..(4 * (Len(T) - 1)) |->
        LET i == (j - 1) \div 4
            c == ((j - 1) % 4) \div 2
        IN IF (j - 1) % 2 = 0
           THEN <<ListLeg(T, i \div 2, (IF i % 2 = 1 THEN 1 ELSE 4) + c),
                  PcLeg(pcs[c + 1], i)>>
           ELSE <<ListLeg(T, -1 - (i \div 2), (IF i % 2 = 1 THEN 4 ELSE 1) + c),
                  PcLeg(pcs[c + 1], -1 - i)>>]

OddMiddleOps(T) ==
    LET h == Len(T) \div 2
    IN [q \in 1..3 |-> <<ListLeg(T, h - 1, q - 1), ListLeg(T, h, q + 2)>>]

OddOutputOrder(T) ==
    LET h == Len(T) \div 2
    IN [j \in 1..(2 * (Len(T) - 1)) |->
          LET p == (j - 1) \div 2
              l == IF (j - 1) % 2 = 0 THEN 3 ELSE 0
          IN IF p < h - 1 THEN ListLeg(T, p, l)
             ELSE IF p = h - 1 THEN ListLeg(T, IF l = 3 THEN h - 1 ELSE h, l)
             ELSE ListLeg(T, p + 1, l)]

\* interior case, even len(edge_choices)
EvenOps(T, pcs) ==
    [j \in 1..(4 * (Len(T) - 1)) |->
        LET i == (j - 1) \div 4
            c == ((j - 1) % 4) \div 2
        IN IF (j - 1) % 2 = 0
           THEN <<ListLeg(T, (i + 1) \div 2, (IF i % 2 = 1 THEN 4 ELSE 1) + c),
                  PcLeg(pcs[c + 1], i)>>
           ELSE <<ListLeg(T, -1 - ((i + 1) \div 2),
                          (IF i % 2 = 1 \/ i = 0 THEN 1 ELSE 4) + c),
                  PcLeg(pcs[c + 1], -1 - i)>>]

EvenOutputOrder(T) ==
    [j \in 1..(2 * Len(T) - 2) |->
        IF j = 1 THEN ListLeg(T, 0, 0)
        ELSE IF j = 2 * Len(T) - 2 THEN ListLeg(T, -1, 0)
        ELSE ListLeg(T, j \div 2, IF j % 2 = 0 THEN 3 ELSE 0)]

\* the network-leaf base case: np.eye(2 ** (n - 1)).reshape((2,) * 2 * (n - 1))
LeafIdentity(node, num_tensors_per_stack) ==
    [id |-> TensorId("eye", node, 0), rank |-> 2 * (num_tensors_per_stack - 1)]

\* The wiring of one call once its recursive calls returned pcs: copy the list
\* of node, bind ops in order, contract.  pre: the legs bound before the call.
Wire(tbr, node, pcs, pre, root_case, odd_case) ==
    LET T == TensorsCopy(tbr, node)
        below == UNION {pcs[c].edges : c \in 1..Len(pcs)}
        made == UNION {pcs[c].tensors : c \in 1..Len(pcs)}
        ops == IF root_case THEN RootOps(T, pcs) \o RootSelfOps(T)
               ELSE IF odd_case THEN OddOps(T, pcs) \o OddMiddleOps(T)
               ELSE EvenOps(T, pcs) \o <<>>
        st == ConnectAll(pre, ops)
        order == IF root_case THEN <<>>
                 ELSE IF odd_case THEN OddOutputOrder(T) ELSE EvenOutputOrder(T)
        g == Greedy(st, AllLegs(Range(T)) \cup UNION {Range(pcs[c].legs) : c \in 1..Len(pcs)},
                    ~root_case, order)
    IN Contraction(g.exc, -1, g.legs, made \cup Range(T), below \cup st.edges)

\* the recursive calls of one call, in order, stopping at the first that raises
RECURSIVE contract_children(_, _, _, _, _)
Partials(t, tree_root, tbr, pre, edge_choices, count) ==
    LET RECURSIVE upto(_)
        upto(c) ==
            IF c = 0 THEN <<>>
            ELSE LET before == upto(c - 1)
                 IN IF before # <<>> /\ before[Len(before)].exc # "" THEN before
                    ELSE Append(before,
                                contract_children(t, tree_root, tbr, pre,
                                                  Append(edge_choices, c - 1)))
    IN upto(count)

contract_children(t, tree_root, tbr, pre, edge_choices) ==
    LET depth == tree_depth(t, tree_root)
        r == edge_choices_to_node(t, tree_root, edge_choices)
        root == r.node
        root_case == Len(edge_choices) = 0
        pcs == Partials(t, tree_root, tbr, pre, edge_choices,
                        IF root_case THEN 3 ELSE 2)
        last == pcs[Len(pcs)]
    IN IF r.exc # "" THEN Contraction(r.exc, r.arg, <<>>, {}, {})
       ELSE IF Len(edge_choices) > depth
            THEN Contraction(TooHighDepth, Len(edge_choices), <<>>, {}, {})
       ELSE IF ~root_case /\ tree_depth(t, root) = 0
            THEN IF tree_root \notin DOMAIN tbr
                 THEN Contraction(KeyError, tree_root, <<>>, {}, {})
                 ELSE LET eye == LeafIdentity(root, Len(TensorsCopy(tbr, tree_root)))
                      IN Contraction("", -1,
                                     [j \in 1..eye.rank |-> Leg(eye.id, j - 1)],
                                     {eye}, {})
       ELSE IF last.exc # ""
            THEN Contraction(last.exc, last.arg, <<>>, {},
                             UNION {pcs[c].edges : c \in 1..Len(pcs)})
       ELSE IF (IF root_case THEN tree_root ELSE root) \notin DOMAIN tbr
            THEN Contraction(KeyError, root, <<>>, {},
                             UNION {pcs[c].edges : c \in 1..Len(pcs)})
       ELSE Wire(tbr, IF root_case THEN tree_root ELSE root, pcs, pre,
                 root_case, Len(edge_choices) % 2 = 1)

\* ------------------------------------------------------------ the calls
NoResult ==
    [op |-> "", edge_choices |-> <<>>, exc |-> "", arg |-> -1, node |-> -1,
     legs |-> <<>>]
EmptyNetwork == [tensors |-> {}, edges |-> {}]

\* the argument lists of the calls explored
PathsUpTo(len, labels) == UNION {[1..k -> labels] : k \in 0..len}
Degree(t) == Len(t.successors[t.root])
\* betas and gammas: all zero, or different in every layer and from each other
AnglePairs(len) ==
    { <<[k \in 1..len |-> 0], [k \in 1..len |-> 0]>>,
      <<[k \in 1..len |-> k], [k \in 1..len |-> len + k]>> }
ExtraChoices(t) == {EmptyDict, [x \in {t.root} |-> "Z"], [x \in t.nodes |-> "Z"]}

Init ==
    /\ \E degree \in Degrees, depth \in 1..MaxDepth :
          tree = regular_prefix_tree(degree, depth)
    /\ betas = <<>>
    /\ gammas = <<>>
    /\ extra_operators = EmptyDict
    /\ tensors_by_root = EmptyDict
    /\ stored_edges = {}
    /\ result = NoResult
    /\ network = EmptyNetwork

EdgeChoicesToNode(edge_choices) ==
    /\ result = NoResult
    /\ LET r == edge_choices_to_node(tree, tree.root, edge_choices)
       IN result' = [op |-> "edge_choices_to_node", edge_choices |-> edge_choices,
                     exc |-> r.exc, arg |-> r.arg, node |-> r.node, legs |-> <<>>]
    /\ UNCHANGED <<tree, betas, gammas, extra_operators, tensors_by_root,
                   stored_edges, network>>

QaoaTensorNetwork(bs, gs, extra) ==
    /\ result = NoResult
    /\ tensors_by_root = EmptyDict
    /\ betas' = bs
    /\ gammas' = gs
    /\ extra_operators' = extra
    /\ tensors_by_root' = qaoa_tensor_network(bs, gs, tree, tree.root, extra)
    /\ UNCHANGED <<tree, stored_edges, result, network>>

StoredLeg(l) == l.t.kind = "stored"

ContractChildren(edge_choices) ==
    /\ result = NoResult
    /\ tensors_by_root # EmptyDict
    /\ LET c == contract_children(tree, tree.root, tensors_by_root,
                                  UNION stored_edges, edge_choices)
       IN /\ result' = [op |-> "contract_children", edge_choices |-> edge_choices,
                        exc |-> c.exc, arg |-> c.arg, node |-> -1, legs |-> c.legs]
          /\ network' = IF c.exc = "" THEN [tensors |-> c.tensors, edges |-> c.edges]
                        ELSE EmptyNetwork
          /\ stored_edges' = stored_edges
                               \cup {e \in c.edges : \E l \in e : StoredLeg(l)}
    /\ UNCHANGED <<tree, betas, gammas, extra_operators, tensors_by_root>>

\* the caller drops what the last call returned
Discard ==
    /\ result # NoResult
    /\ result' = NoResult
    /\ network' = EmptyNetwork
    /\ UNCHANGED <<tree, betas, gammas, extra_operators, tensors_by_root,
                   stored_edges>>

Next ==
    \/ \E edge_choices \in PathsUpTo(tree_depth(tree, tree.root) + 1,
                                     0..Degree(tree)) :
          EdgeChoicesToNode(edge_choices)
    \/ \E len \in 1..MaxLayers :
          \E angles \in AnglePairs(len), extra \in ExtraChoices(tree) :
                QaoaTensorNetwork(angles[1], angles[2], extra)
    \/ \E edge_choices \in PathsUpTo(tree_depth(tree, tree.root) + 1,
                                     0..(Degree(tree) - 1)) :
          ContractChildren(edge_choices)
    \/ Discard

Spec == Init /\ [][Next]_vars

\* ------------------------------------------------ what the claims speak of
Depth == tree_depth(tree, tree.root)
Layers == Len(betas)
Built == tensors_by_root # EmptyDict
\* the state qaoa_tensor_network returns in: the mapping built, no call since
Returned_qaoa_tensor_network == Built /\ result = NoResult
Resolved == result.op = "edge_choices_to_node"
Contracted == result.op = "contract_children"
ContractedRoot == Contracted /\ result.edge_choices = <<>>
InternalNodes == {x \in tree.nodes : tree.successors[x] # <<>>}
DepthOf(node) ==
    CHOOSE d \in 0..Depth : node \in descendants_at_distance(tree, tree.root, d)

\* the strings of the prefix tree, each with its node: read off the tree from
\* the root down, every child extending its parent's string by its source
RECURSIVE StringsBelow(_, _, _)
StringsBelow(t, node, str) ==
    {<<str, node>>}
      \cup UNION {StringsBelow(t, t.successors[node][c],
                               Append(str, t.source[t.successors[node][c]])) :
                     c \in 1..Len(t.successors[node])}
Strings(t) == StringsBelow(t, t.root, <<>>)
Prefix(seq, i) == [j \in 1..i |-> seq[j]]

\* The lines of a network all of whose gates are identities (every angle 0, no
\* inserted operator): inside a tensor of rank 2k leg j continues as leg j + k,
\* a boundary tensor ends every leg in the uniform vector (1, 1) / sqrt(2).
ZeroAngles ==
    /\ \A k \in 1..Len(betas) : betas[k] = 0 /\ gammas[k] = 0
    /\ extra_operators = EmptyDict
IsBoundary(leg) ==
    leg.t.kind # "eye" /\ tensors_by_root[leg.t.node][leg.t.k + 1].initial_final
RankOf(id) ==
    LET x == CHOOSE x \in network.tensors : x.id = id IN x.rank
Inner(leg) == Leg(leg.t, (leg.i + RankOf(leg.t) \div 2) % RankOf(leg.t))
Outer(leg) ==
    LET e == CHOOSE e \in network.edges : leg \in e
    IN CHOOSE other \in e : other # leg

\* the legs of the line that enters a tensor at leg `at`, up to its end in a
\* boundary tensor or its return to leg `start`
RECURSIVE LineFrom(_, _, _)
LineFrom(at, start, seen) ==
    IF IsBoundary(at) THEN seen \cup {at}
    ELSE LET out == Inner(at)
         IN IF out = start THEN seen \cup {at}
            ELSE LineFrom(Outer(out), start, seen \cup {at, out})

OpenLegs ==
    UNION {LineFrom(Outer(b), b, {b}) :
              b \in {l \in AllLegs(network.tensors) : IsBoundary(l)}}

RECURSIVE CountLoops(_)
CountLoops(legs) ==
    IF legs = {} THEN 0
    ELSE LET l == CHOOSE l \in legs : TRUE
         IN 1 + CountLoops(legs \ LineFrom(Outer(l), l, {l}))

\* the value of the contracted network: every line between two uniform vectors
\* is a factor 1, every closed line a factor 2 (the trace of the identity)
ClosedLoops == CountLoops(AllLegs(network.tensors) \ OpenLegs)
Value == Pow(2, ClosedLoops)

\* ------------------------------------------------------------ the claims

\* C1: on a degree-3 tree, with every beta and gamma 0 and no inserted operator,
\* contract_children with the empty path returns the value 1: every line runs
\* between two uniform vectors and no closed line contributes a factor 2.
C1_ZeroAnglesValueOne ==
    (ContractedRoot /\ Degree(tree) = 3 /\ ZeroAngles)
        => (result.exc = "" /\ ClosedLoops = 0 /\ Value = 1)

\* the legs of qubit q (0 the root, 1..3 its children) on the k-th tensor of the
\* root's list, and two of them being joined: by one binding for the root
\* qubit, through the identity tensor of the leaf for a child
RootCopy(k) == TensorId("copy", tree.root, k)
Leaving(k, q) == Leg(RootCopy(k), q)
Entering(k, q) ==
    Leg(RootCopy(k),
        IF tensors_by_root[tree.root][k + 1].initial_final THEN q ELSE q + 4)
Connected(a, b, q) ==
    IF q = 0 THEN {a, b} \in network.edges
    ELSE \E x \in LegsOf(CHOOSE e \in network.tensors :
                            e.id = TensorId("eye", tree.successors[tree.root][q], 0)) :
            {a, x} \in network.edges /\ {Inner(x), b} \in network.edges

\* C2: on a depth-1, degree-3 tree the network wired for the empty path is the
\* dense 4-qubit circuit: for each qubit q (0 the root, 1..3 its children) and
\* each k, the leg of q leaving the k-th tensor of the root's list is connected
\* (directly for the root, through the leaf identity for a child) to the leg of
\* q entering the (k+1)-th tensor.
C2_DenseCircuitWiring ==
    (ContractedRoot /\ Degree(tree) = 3 /\ Depth = 1 /\ result.exc = "")
        => \A q \in 0..3, k \in 0..(2 * Layers - 2) :
              Connected(Leaving(k, q), Entering(k + 1, q), q)

C4_InvalidPathExactly ==
    [][(result'.op = "edge_choices_to_node") =>
          LET p == result'.edge_choices
              strings == {x[1] : x \in Strings(tree)}
              missing == {i \in 1..Len(p) : Prefix(p, i) \notin strings}
          IN /\ (result'.exc = InvalidEdgeChoice) <=> (missing # {})
             /\ missing = {} => result'.exc = ""
             /\ missing # {} =>
                   /\ result'.arg = p[CHOOSE i \in missing : \A k \in missing : i <= k]
                   /\ result'.node = -1
             /\ tree' = tree]_vars
C4_Witness ==
    /\ Resolved
    /\ Degree(tree) = 3
    /\ Len(result.edge_choices) = 2
    /\ result.edge_choices[1] = 1
    /\ result.exc = InvalidEdgeChoice
    /\ result.arg = result.edge_choices[2]

\* C5: contract_children with a path longer than the depth of the tree raises
\* the too-deep error, not the invalid-path error.
C5_TooDeepError ==
    (Contracted /\ Len(result.edge_choices) > Depth) => result.exc = TooHighDepth

\* C6: contract_children never changes tensors_by_root: whatever calls are
\* made, the mapping keeps its keys and lists and every leg of every tensor
\* stored in it stays unbound.
C6_StoredUntouched ==
    [][Built => (tensors_by_root' = tensors_by_root /\ stored_edges' = {})]_vars
C6_Witness ==
    /\ ContractedRoot
    /\ Degree(tree) = 3
    /\ Depth = 2
    /\ result.exc = ""
    /\ network.edges # {}
    /\ stored_edges = {}

\* C7: the keys of tensors_by_root are exactly the internal nodes; every list
\* has 2L tensors, position k the forward tensor of layer k and position L+k
\* the dag tensor of layer L-1-k; a node at even depth has tensors of even
\* passes only, a node at odd depth of odd passes only.
C7_ListsByLayer ==
    Returned_qaoa_tensor_network =>
        /\ DOMAIN tensors_by_root = InternalNodes
        /\ \A node \in InternalNodes :
              LET list == tensors_by_root[node]
                  odd == DepthOf(node) % 2 = 1
              IN /\ Len(list) = 2 * Layers
                 /\ \A p \in 1..(2 * Layers) :
                       list[p].root = node /\ list[p].odd = odd
                 /\ \A k \in 0..(Layers - 1) :
                       /\ ~list[k + 1].dag
                       /\ list[k + 1].beta = betas[k + 1]
                       /\ list[k + 1].gamma = gammas[k + 1]
                       /\ list[Layers + k + 1].dag
                       /\ list[Layers + k + 1].beta = -betas[Layers - k]
                       /\ list[Layers + k + 1].gamma = -gammas[Layers - k]
C7_Witness ==
    /\ Returned_qaoa_tensor_network
    /\ Degree(tree) = 3
    /\ Depth = 2
    /\ betas = <<1, 2>>
    /\ tensors_by_root[1][3].beta = -2

\* C8: on a degree-3 tree the bindings made for the empty path are a perfect
\* matching of the legs: every leg used exists (boundary tensors have m+1 legs,
\* the others 2(m+1), a partial contraction 4L-2), no leg is bound twice, none
\* is left unbound, and the tensor returned has no free leg.
C8_PerfectMatching ==
    /\ (ContractedRoot /\ Degree(tree) = 3) =>
          /\ result.exc = ""
          /\ result.legs = <<>>
          /\ UNION network.edges = AllLegs(network.tensors)
          /\ Cardinality(UNION network.edges) = 2 * Cardinality(network.edges)
          /\ \A x \in network.tensors :
                IF x.id.kind = "eye" THEN x.rank = 4 * Layers - 2
                ELSE LET stored == tensors_by_root[x.id.node][x.id.k + 1]
                     IN x.rank = IF stored.initial_final THEN Len(stored.qubits)
                                 ELSE 2 * Len(stored.qubits)
    /\ (/\ Contracted
        /\ Degree(tree) = 3
        /\ result.edge_choices # <<>>
        /\ result.edge_choices \in {x[1] : x \in Strings(tree)}) =>
          /\ result.exc = ""
          /\ Len(result.legs) = 4 * Layers - 2
C8_Witness ==
    /\ ContractedRoot
    /\ Degree(tree) = 3
    /\ Depth = MaxDepth
    /\ Layers = MaxLayers
    /\ result.exc = ""
    /\ Cardinality(network.edges) > 0

\* C9: every node with an entry in extra_operators has its operator in the
\* network exactly once, in a tensor of the last forward layer.
C9_ExtraOperatorOnce ==
    Returned_qaoa_tensor_network =>
        \A node \in DOMAIN extra_operators :
            LET holders ==
                  {h \in (DOMAIN tensors_by_root) \X (1..(2 * Layers))
                        \X (1..(Degree(tree) + 1)) :
                      LET x == tensors_by_root[h[1]][h[2]]
                      IN /\ h[3] <= Len(x.qubits)
                         /\ x.qubits[h[3]] = node
                         /\ x.extra[h[3]] # Identity}
            IN /\ Cardinality(holders) = 1
               /\ \A h \in holders : h[2] = Layers

\* C10: in every layer of the forward sweep and of the dag sweep every qubit of
\* the tree receives exactly one mixer rotation, over the tensors of the
\* layer's even pass and odd pass together.
C10_MixerOncePerLayer ==
    Returned_qaoa_tensor_network =>
        \A node \in tree.nodes, p \in 1..(2 * Layers) :
            Cardinality({h \in (DOMAIN tensors_by_root) \X (1..(Degree(tree) + 1)) :
                            LET x == tensors_by_root[h[1]][p]
                            IN /\ h[2] <= Len(x.qubits)
                               /\ x.qubits[h[2]] = node
                               /\ x.mixer[h[2]]}) = 1

====
